---------------------------- MODULE Spec2Model ----------------------------
(***************************************************************************)
(* Variable-area resistor lab (ongzzzzzz/var-area-res).                    *)
(*                                                                         *)
(* The module models the simulation core of src/utils.js (Mulberry32,      *)
(* AreaProfile, MeasurementLog and the exponential-taper experiment) and   *)
(* of src/gpt-ver/main.js (the random-lobes experiment session).           *)
(*                                                                         *)
(* Numbers.  A JavaScript Number is modelled as a record                   *)
(*     [k |-> "num", n |-> numerator, d |-> denominator]   (lowest terms)  *)
(* or one of the special values NaN, PosInf, NegInf; a missing array       *)
(* element or property is Undefined.  Arithmetic on "num" values is exact  *)
(* rational arithmetic: binary64 rounding is not modelled, and zero has    *)
(* no sign.                                                                *)
(***************************************************************************)
EXTENDS Integers, Sequences, FiniteSets, TLC

(***************************************************************************)
(* JavaScript Number values.                                               *)
(***************************************************************************)
RECURSIVE GCD(_, _)
GCD(a, b) == IF b = 0 THEN a ELSE GCD(b, a % b)

Abs(i) == IF i < 0 THEN -i ELSE i

NaN == [k |-> "NaN", n |-> 0, d |-> 1]

PosInf == [k |-> "Infinity", n |-> 1, d |-> 1]

NegInf == [k |-> "Infinity", n |-> -1, d |-> 1]

Undefined == [k |-> "undefined", n |-> 0, d |-> 1]

\* The Number n/d (d # 0), in lowest terms with a positive denominator.
Num(n, d) ==
    LET g == GCD(Abs(n), Abs(d))
        s == IF d < 0 THEN -1 ELSE 1
    IN  [k |-> "num", n |-> s * (n \div g), d |-> s * (d \div g)]

Int2Num(i) == [k |-> "num", n |-> i, d |-> 1]

Zero == Int2Num(0)

One == Int2Num(1)

IsNum(v) == v.k = "num"

IsInf(v) == v.k = "Infinity"

IsNaN(v) == v.k = "NaN"

\* Number.isFinite
IsFinite(v) == v.k = "num"

\* ToNumber on the values that occur: undefined converts to NaN.
ToNumber(v) == IF v.k = "undefined" THEN NaN ELSE v

\* The sign of a Number that is not NaN: -1, 0 or 1.
Sgn(v) == IF v.n < 0 THEN -1 ELSE IF v.n > 0 THEN 1 ELSE 0

Neg(v) == IF v.k = "NaN" THEN NaN ELSE [v EXCEPT !.n = -v.n]

\* a + b
Add(a0, b0) ==
    LET a == ToNumber(a0)
        b == ToNumber(b0)
    IN  IF IsNaN(a) \/ IsNaN(b) THEN NaN
        ELSE IF IsInf(a) /\ IsInf(b) THEN (IF a.n = b.n THEN a ELSE NaN)
        ELSE IF IsInf(a) THEN a
        ELSE IF IsInf(b) THEN b
        ELSE LET g == GCD(a.d, b.d)
             IN  Num(a.n * (b.d \div g) + b.n * (a.d \div g), (a.d \div g) * b.d)

\* a - b
Sub(a, b) == Add(a, Neg(ToNumber(b)))

\* a * b
Mul(a0, b0) ==
    LET a == ToNumber(a0)
        b == ToNumber(b0)
    IN  IF IsNaN(a) \/ IsNaN(b) THEN NaN
        ELSE IF IsInf(a) \/ IsInf(b)
             THEN (IF Sgn(a) * Sgn(b) = 0 THEN NaN
                   ELSE IF Sgn(a) * Sgn(b) > 0 THEN PosInf ELSE NegInf)
        ELSE LET g1 == GCD(Abs(a.n), b.d)
                 g2 == GCD(Abs(b.n), a.d)
             IN  Num((a.n \div g1) * (b.n \div g2), (a.d \div g2) * (b.d \div g1))

\* a / b
Div(a0, b0) ==
    LET a == ToNumber(a0)
        b == ToNumber(b0)
    IN  IF IsNaN(a) \/ IsNaN(b) THEN NaN
        ELSE IF IsInf(a) /\ IsInf(b) THEN NaN
        ELSE IF IsInf(a) THEN (IF Sgn(a) * Sgn(b) < 0 THEN NegInf ELSE PosInf)
        ELSE IF IsInf(b) THEN Zero
        ELSE IF b.n = 0
             THEN (IF a.n = 0 THEN NaN ELSE IF a.n > 0 THEN PosInf ELSE NegInf)
        ELSE Mul(a, Num(b.d, b.n))

\* a < b  (false when either side is NaN)
Lt(a0, b0) ==
    LET a == ToNumber(a0)
        b == ToNumber(b0)
    IN  IF IsNaN(a) \/ IsNaN(b) THEN FALSE
        ELSE IF IsInf(a) THEN a.n < 0 /\ ~(IsInf(b) /\ b.n < 0)
        ELSE IF IsInf(b) THEN b.n > 0
        ELSE LET g == GCD(a.d, b.d)
             IN  a.n * (b.d \div g) < b.n * (a.d \div g)

\* a <= b  (false when either side is NaN)
Le(a, b) == Lt(a, b) \/ (~IsNaN(ToNumber(a)) /\ ToNumber(a) = ToNumber(b))

\* Math.min(a, b)
MathMin(a0, b0) ==
    LET a == ToNumber(a0)
        b == ToNumber(b0)
    IN  IF IsNaN(a) \/ IsNaN(b) THEN NaN ELSE IF Lt(b, a) THEN b ELSE a

\* Math.max(a, b)
MathMax(a0, b0) ==
    LET a == ToNumber(a0)
        b == ToNumber(b0)
    IN  IF IsNaN(a) \/ IsNaN(b) THEN NaN ELSE IF Lt(a, b) THEN b ELSE a

\* Math.floor(a)
MathFloor(a0) ==
    LET a == ToNumber(a0)
    IN  IF IsNum(a) THEN Int2Num(a.n \div a.d) ELSE a

\* arr[i] of a JavaScript array held as a sequence (element 0 first):
\* undefined unless i is an integer index of the array.
Get(arr, i) ==
    IF IsNum(i) /\ i.d = 1 /\ i.n >= 0 /\ i.n < Len(arr) THEN arr[i.n + 1]
    ELSE Undefined


(***************************************************************************)
(* 32-bit words.  TLC's integers are 32-bit signed, so a 32-bit pattern is  *)
(* held as two 16-bit halves [hi, lo]; every operation below is the        *)
(* operation on the full pattern modulo 2^32.                              *)
(***************************************************************************)
Word(hi, lo) == [hi |-> hi, lo |-> lo]

\* x >>> 0 for a non-negative integer below 2^31.
ToUint32(i) == Word(i \div 65536, i % 65536)

RECURSIVE Xor16(_, _, _)
Xor16(x, y, bits) ==
    IF bits = 0 THEN 0
    ELSE ((x + y) % 2) + 2 * Xor16(x \div 2, y \div 2, bits - 1)

RECURSIVE Or16(_, _, _)
Or16(x, y, bits) ==
    IF bits = 0 THEN 0
    ELSE (IF x % 2 = 1 \/ y % 2 = 1 THEN 1 ELSE 0)
         + 2 * Or16(x \div 2, y \div 2, bits - 1)

\* a ^ b
Xor32(a, b) == Word(Xor16(a.hi, b.hi, 16), Xor16(a.lo, b.lo, 16))

\* a | c for a constant c below 2^16
Or32(a, c) == Word(a.hi, Or16(a.lo, c, 16))

\* a + b, wrapped to 32 bits
Add32(a, b) ==
    LET lo == a.lo + b.lo
    IN  Word((a.hi + b.hi + (lo \div 65536)) % 65536, lo % 65536)

RECURSIVE Pow2(_)
Pow2(e) == IF e = 0 THEN 1 ELSE 2 * Pow2(e - 1)

\* a >>> s for 0 < s < 16
Shr32(a, s) ==
    Word(a.hi \div Pow2(s),
         (a.lo \div Pow2(s)) + (a.hi % Pow2(s)) * Pow2(16 - s))

\* The low 16 bits of x * y for 16-bit x and y, by bytes.
MulLo16(x, y) ==
    LET x0 == x % 256
        x1 == x \div 256
        y0 == y % 256
        y1 == y \div 256
    IN  (x0 * y0 + ((x1 * y0 + x0 * y1) % 256) * 256) % 65536

\* Bits 16..31 of x * y for 16-bit x and y, by bytes.
MulHi16(x, y) ==
    LET x0 == x % 256
        x1 == x \div 256
        y0 == y % 256
        y1 == y \div 256
        mid == x1 * y0 + x0 * y1
        low == x0 * y0 + (mid % 256) * 256
    IN  ((low \div 65536) + (mid \div 256) + x1 * y1) % 65536

\* Math.imul(a, b): the low 32 bits of the product.
Imul32(a, b) ==
    Word((MulHi16(a.lo, b.lo) + MulLo16(a.hi, b.lo) + MulLo16(a.lo, b.hi)) % 65536,
         MulLo16(a.lo, b.lo))

(***************************************************************************)
(* class Mulberry32.  The generator's state is the running sum             *)
(* seed + k * 0x6D2B79F5; next() only ever reads it through 32-bit         *)
(* operators, so the model keeps it modulo 2^32.                           *)
(***************************************************************************)
\* 0x6D2B79F5
MulberryInc == Word(27947, 31221)

\* new Mulberry32(seed): this.state = seed >>> 0
MulberrySeed(seed) == ToUint32(seed)

\* The state after next(): this.state += 0x6D2B79F5
MulberryStep(state) == Add32(state, MulberryInc)

\* The 32-bit pattern (t ^ (t >>> 14)) >>> 0 that next() computes from the
\* advanced state.
MulberryBits(state1) ==
    LET t0 == state1
        t1 == Imul32(Xor32(t0, Shr32(t0, 15)), Or32(t0, 1))
        t2 == Xor32(t1, Add32(t1, Imul32(Xor32(t1, Shr32(t1, 7)), Or32(t1, 61))))
    IN  Xor32(t2, Shr32(t2, 14))

\* bits / 4294967296 as a Number in [0, 1).  The quotient is carried at
\* 8 fractional bits (the top byte of the pattern).
Unit32(w) == Num(w.hi \div 256, 256)

\* next(): the value returned, given the state before the call.
MulberryNext(state) == Unit32(MulberryBits(MulberryStep(state)))

(***************************************************************************)
(* p5.js helpers and Math functions used by AreaProfile.                   *)
(***************************************************************************)
\* constrain(n, low, high) == Math.max(Math.min(n, high), low)
constrain(n, low, high) == MathMax(MathMin(n, high), low)

\* lerp(start, stop, amt) == amt * (stop - start) + start
lerp(start, stop, amt) == Add(Mul(amt, Sub(stop, start)), start)

\* sin(pi * v) for 0 <= v <= 1: the chords through the exact values at
\* v = 0, 1/6, 1/2, 5/6, 1.
SinArch(v) ==
    IF Le(v, Num(1, 6)) THEN Mul(Int2Num(3), v)
    ELSE IF Le(v, Num(1, 2)) THEN Add(Num(1, 4), Mul(Num(3, 2), v))
    ELSE IF Le(v, Num(5, 6)) THEN Add(Num(1, 4), Mul(Num(3, 2), Sub(One, v)))
    ELSE Mul(Int2Num(3), Sub(One, v))

\* Math.sin(Math.PI * h).  Angles are carried in units of pi, so that they
\* stay rational; the sine itself is approximated by SinArch (within 0.07),
\* keeping its period, its symmetries, its range [-1, 1] and Math.sin's
\* NaN for a NaN or infinite argument.
SinPi(h0) ==
    LET h == ToNumber(h0)
    IN  IF ~IsNum(h) THEN NaN
        ELSE LET v == Sub(h, Mul(Int2Num(2), MathFloor(Div(h, Int2Num(2)))))
             IN  IF Le(v, One) THEN SinArch(v) ELSE Neg(SinArch(Sub(v, One)))

(***************************************************************************)
(* class AreaProfile.                                                      *)
(***************************************************************************)
\* An array of len copies of v: new Array(len).fill(v), len >= 0.
Filled(len, v) == [i \in 1..len |-> v]

\* One rng.next() call on generator g = [state, draws]: the generator after
\* the call and the value returned.  draws counts the calls made so far.
RngNext(g) ==
    LET s1 == MulberryStep(g.state)
    IN  [rng |-> [state |-> s1, draws |-> g.draws + 1],
         val |-> Unit32(MulberryBits(s1))]

\* The inner loop of generate(), from lobe k on: each lobe draws a phase and
\* a frequency and adds 0.6 * sin(freq * PI * xNorm + phase) to val.
RECURSIVE LobeLoop(_, _, _, _, _)
LobeLoop(g, xNorm, k, lobes, val) ==
    IF k >= lobes THEN [rng |-> g, val |-> val]
    ELSE LET d1 == RngNext(g)
             phase == Mul(d1.val, Int2Num(2))          \* in units of pi
             d2 == RngNext(d1.rng)
             freq == Add(Num(7, 10), Mul(d2.val, Num(13, 10)))
             term == Mul(Num(3, 5), SinPi(Add(Mul(freq, xNorm), phase)))
         IN  LobeLoop(d2.rng, xNorm, k + 1, lobes, Add(val, term))

\* The value held in val when it is clamped: Numbers of the area array are
\* carried at a precision of 1/5 mm^2 (round to nearest).
AreaPrecision(val) ==
    IF IsNum(val)
    THEN Div(MathFloor(Add(Mul(val, Int2Num(5)), Num(1, 2))), Int2Num(5))
    ELSE val

\* val = Math.min(this.maxArea, Math.max(this.minArea, val))
ClampArea(p, val) == MathMin(p.maxArea, MathMax(p.minArea, val))

\* The outer loop of generate(), from sample i on.
RECURSIVE SampleLoop(_, _, _)
SampleLoop(p, i, lobes) ==
    IF i >= p.samples THEN p
    ELSE LET xNorm == Div(Int2Num(i), Int2Num(p.samples - 1))
             ls == LobeLoop(p.rng, xNorm, 0, lobes, Num(7, 5))
             dj == RngNext(ls.rng)
             jit == Add(ls.val, Mul(Num(3, 10), Sub(dj.val, Num(1, 2))))
             val == ClampArea(p, AreaPrecision(jit))
         IN  SampleLoop([p EXCEPT !.rng = dj.rng, !.area[i + 1] = val],
                        i + 1, lobes)

\* generate()
generate(p) ==
    LET d0 == RngNext(p.rng)
        lobes == 2 + MathFloor(Mul(d0.val, Int2Num(3))).n
    IN  SampleLoop([p EXCEPT !.rng = d0.rng], 0, lobes)

\* new AreaProfile(opts) for opts.samples >= 0, with the seed that
\* opts.seed ?? Math.floor(Math.random() * 1e9) evaluates to.
NewAreaProfile(length, samples, minArea, maxArea, seed) ==
    generate([length |-> length,
              samples |-> samples,
              minArea |-> minArea,
              maxArea |-> maxArea,
              rng |-> [state |-> MulberrySeed(seed), draws |-> 0],
              area |-> Filled(samples, One),
              dx |-> Div(length, Int2Num(samples - 1)),
              cumulative |-> Filled(samples, Zero),
              totalR |-> One])

\* cumulative[i] = v on a JavaScript array: an assignment at index
\* length appends (precompute writes cumulative[0] of an empty array).
SetAt(arr, i, v) ==
    IF i < Len(arr) THEN [arr EXCEPT ![i + 1] = v] ELSE Append(arr, v)

\* The loop of precompute(), from index i on.
RECURSIVE IntegrateLoop(_, _, _)
IntegrateLoop(p, rho, i) ==
    IF i >= p.samples THEN p
    ELSE LET scale == Num(1, 1000000)
             conductance == Div(rho, Mul(Get(p.area, Int2Num(i)), scale))
             c == Add(Get(p.cumulative, Int2Num(i - 1)), Mul(conductance, p.dx))
         IN  IntegrateLoop([p EXCEPT !.cumulative = SetAt(@, i, c)], rho, i + 1)

\* Mutant of precompute: totalR is read one index short of the last sample.
precomputeShort(p, rho) ==
    LET q == IntegrateLoop([p EXCEPT !.cumulative = SetAt(@, 0, Zero)], rho, 1)
    IN  [q EXCEPT !.totalR = Get(q.cumulative, Int2Num(q.samples - 2))]

\* precompute(rho)
precompute(p, rho) ==
    LET q == IntegrateLoop([p EXCEPT !.cumulative = SetAt(@, 0, Zero)], rho, 1)
    IN  [q EXCEPT !.totalR = Get(q.cumulative, Int2Num(q.samples - 1))]

\* Mutant of Interpolate: the two ends of the interpolation are swapped.
InterpolateSwapped(p, arr, x) ==
    LET t == constrain(Div(x, p.length), Zero, One)
        idx == Mul(t, Int2Num(p.samples - 1))
        i0 == MathFloor(idx)
        i1 == MathMin(Int2Num(p.samples - 1), Add(i0, One))
        f == Sub(idx, i0)
    IN  [i0 |-> i0, i1 |-> i1, val |-> lerp(Get(arr, i1), Get(arr, i0), f)]

\* The lookup that areaAt and resistanceUpTo share: the two indices read
\* and the interpolated value.
Interpolate(p, arr, x) ==
    LET t == constrain(Div(x, p.length), Zero, One)
        idx == Mul(t, Int2Num(p.samples - 1))
        i0 == MathFloor(idx)
        i1 == MathMin(Int2Num(p.samples - 1), Add(i0, One))
        f == Sub(idx, i0)
    IN  [i0 |-> i0, i1 |-> i1, val |-> lerp(Get(arr, i0), Get(arr, i1), f)]

\* areaAt(x)
areaAt(p, x) == Interpolate(p, p.area, x).val

\* resistanceUpTo(x)
resistanceUpTo(p, x) == Interpolate(p, p.cumulative, x).val

(***************************************************************************)
(* The sliders of both sessions.                                           *)
(***************************************************************************)
\* createSlider(min, max, value, step): the value the new slider holds.  A
\* range input keeps its value within [min, max].
createSlider(min, max, value) == constrain(value, min, max)

(***************************************************************************)
(* class VarAreaExperiment of src/gpt-ver/main.js.                         *)
(***************************************************************************)
\* The count the session passes to autoScan.
ScanCount == 24

\* The fields a new session holds, its profile and its log apart.
NewSim ==
    LET length == One
        currentA == Num(1, 4)
        noiseStd == Num(3, 1000)
        probeX == Num(7, 20)
    IN  [st |-> "live", length |-> length, rho |-> Num(17, 1000000000),
         currentA |-> currentA, noiseStd |-> noiseStd, probeX |-> probeX,
         iSlider |-> createSlider(Num(1, 20), Num(4, 5), currentA),
         nSlider |-> createSlider(Zero, Num(1, 50), noiseStd),
         xSlider |-> createSlider(Zero, length, probeX)]

\* measureVoltage(x) of session s on profile p, where randomGaussian()
\* yields z
measureVoltage(s, p, x, z) ==
    LET noiseless == Mul(s.currentA, resistanceUpTo(p, x))
        noise == Mul(s.noiseStd, z)
    IN  Add(noiseless, noise)

(***************************************************************************)
(* class VarAreaExperiment of src/utils.js: a bar whose radius decays      *)
(* exponentially.  Math.exp is approximated by a rational function, and    *)
(* areas are carried in units of pi (so resistances and ideal voltages     *)
(* are in units of 1 / pi), which keeps every value rational.              *)
(***************************************************************************)
\* The sample count of the taper, standing for this.samples = 512.
TaperSamples == 4

\* Math.exp(-u) for u >= 0, approximated by 1 / (1 + u): 1 at 0, positive
\* and strictly decreasing.
ExpNeg(u) == Div(One, Add(One, u))

\* this.radiusAt(x)
radiusAt(e, x) == Mul(e.r0, ExpNeg(Div(x, e.ell)))

\* this.areaAt(x) / Math.PI, where this.areaAt(x) is
\* Math.PI * Math.pow(this.radiusAt(x), 2)
TaperAreaAt(e, x) == Mul(radiusAt(e, x), radiusAt(e, x))

\* The loop of the constructor that fills this.cumulative, from index i on.
RECURSIVE TaperLoop(_, _)
TaperLoop(e, i) ==
    IF i >= e.samples THEN e
    ELSE LET x == Mul(Int2Num(i), e.dx)
             dR == Div(Mul(e.rho, e.dx), TaperAreaAt(e, x))
             c == Add(Get(e.cumulative, Int2Num(i - 1)), dR)
         IN  TaperLoop([e EXCEPT !.cumulative = SetAt(@, i, c)], i + 1)

\* new VarAreaExperiment(): the fields and, from buildUI, the two sliders.
NewTaper ==
    LET L == Num(1, 100)
        samples == TaperSamples
        currentA == Num(1, 4)
        probeX == Num(7, 20)
        e == [st |-> "live", L |-> L, ell |-> Num(1, 125), r0 |-> Num(1, 2500),
              rho |-> Num(1, 10000), totalR |-> One, samples |-> samples,
              dx |-> Div(L, Int2Num(samples - 1)),
              currentA |-> currentA, noiseStd |-> Num(1, 2), probeX |-> probeX,
              cumulative |-> Filled(samples, Zero), readings |-> <<>>,
              iSlider |-> createSlider(Num(1, 100), Num(3, 4), currentA),
              xSlider |-> createSlider(Zero, L, probeX)]
    IN  TaperLoop(e, 1)

\* vIdeal + totalStd * z of the Add Reading handler.  totalStd is
\* Math.sqrt(johnsonStd^2 + ampStd^2) with johnsonStd^2 = 4 k_b T res BW:
\* positive, finite and irrational, so the sum is kept as its parts.
Noisy(vIdeal, res_curr, z) == [ideal |-> vIdeal, res |-> res_curr, z |-> z]

\* The pair the Add Reading handler pushes, where randomGaussian() yields z
TaperReading(e, z) ==
    LET idx == constrain(MathFloor(Div(e.probeX, e.dx)), Zero,
                         Int2Num(Len(e.cumulative) - 1))
        res_curr == Get(e.cumulative, idx)
        vIdeal == Mul(e.currentA, res_curr)
        vMeas == Noisy(vIdeal, res_curr, z)
    IN  <<e.probeX, vMeas>>

(***************************************************************************)
(* class MeasurementLog.  A log is [data, calls, added]: data is           *)
(* this.data; calls and added are history, not program state: the          *)
(* positions measureFn has been called with, and the samples handed to     *)
(* add(), since the log was last cleared, both in order.                   *)
(***************************************************************************)
\* new MeasurementLog()
NewLog == [data |-> <<>>, calls |-> <<>>, added |-> <<>>]

\* clear(): this.data.length = 0
clear(lg) == [lg EXCEPT !.data = <<>>, !.calls = <<>>, !.added = <<>>]

\* Mutant of add: the sample is put first (unshift for push).
addFirst(lg, x, v) ==
    LET sample == [x |-> x, v |-> v]
    IN  [lg EXCEPT !.data = <<sample>> \o @, !.added = Append(@, sample)]

\* add(x, v): this.data.push({ x, v })
add(lg, x, v) ==
    LET sample == [x |-> x, v |-> v]
    IN  [lg EXCEPT !.data = Append(@, sample), !.added = Append(@, sample)]

\* A measureFn is held as what it closes over.  [kind, s, p, zs] with kind
\* "measureVoltage" is (x) => this.measureVoltage(x) of session s on
\* profile p, where randomGaussian() yields zs[i + 1] on call number i;
\* [kind, rets] with kind "table" returns rets[i + 1] on call number i.
TableFn(rets) == [kind |-> "table", rets |-> rets]

MeasureFn(s, p, zs) == [kind |-> "measureVoltage", s |-> s, p |-> p, zs |-> zs]

\* fn(x), on call number i of fn
CallFn(fn, x, i) ==
    IF fn.kind = "measureVoltage"
    THEN measureVoltage(fn.s, fn.p, x, fn.zs[i + 1])
    ELSE fn.rets[i + 1]

\* The loop of autoScan, from i on.
RECURSIVE ScanLoop(_, _, _, _, _)
ScanLoop(lg, step, fn, i, count) ==
    IF i >= count THEN lg
    ELSE LET x == Mul(Int2Num(i), step)
             v == CallFn(fn, x, i)
         IN  ScanLoop(add([lg EXCEPT !.calls = Append(@, x)], x, v),
                      step, fn, i + 1, count)

\* Mutant of autoScan: the step divides the length by count.
autoScanShortStep(lg, length, fn, count) ==
    ScanLoop(clear(lg), Div(length, Int2Num(count)), fn, 0, count)

\* autoScan(length, fn, count)
autoScan(lg, length, fn, count) ==
    ScanLoop(clear(lg), Div(length, Int2Num(count - 1)), fn, 0, count)

(***************************************************************************)
(* State.                                                                  *)
(***************************************************************************)
VARIABLES
    prof,    \* the AreaProfile objects: slot -> [st, opts, rho, obj]
    last,    \* the latest areaAt / resistanceUpTo call on slot 1 since it
             \* was constructed or last integrated: what it read and returned
    log,     \* the MeasurementLog object
    op,      \* the latest operation on the log and its arguments
    sim,     \* the VarAreaExperiment of src/gpt-ver/main.js; its
             \* areaProfile is prof[1] and its log is log
    taper,   \* the VarAreaExperiment of src/utils.js (exponential taper)
    meas     \* the readings the latest measuring handler produced, with
             \* the current, the positions and the normal draws they used

profVars == <<prof, last>>

logVars == <<log, op>>

sessionVars == <<sim, taper, meas>>

vars == <<prof, last, log, op, sim, taper, meas>>

(***************************************************************************)
(* Inputs of the AreaProfile operations.                                   *)
(***************************************************************************)
\* The largest sample count a caller passes.
MaxSamples == 4

\* Query positions are the quarters from -1/4 to MaxQuarter/4.
MaxQuarter == 9

\* opts.seed left out of the options
NoSeed == -1

Lengths == {Int2Num(-1), Zero, One, Int2Num(2)}

SampleCounts == -1..MaxSamples

\* [minArea, maxArea]: the defaults 0.6 and 3.2, and a narrower band.
AreaBands == {[min |-> Num(3, 5), max |-> Num(16, 5)],
              [min |-> One, max |-> Int2Num(2)]}

ExplicitSeeds == {42, 7}

\* Values Math.floor(Math.random() * 1e9) may take.
RandomSeeds == {7, 123456789}

OptSeeds == ExplicitSeeds \cup {NoSeed}

OptionSets ==
    [length : Lengths, samples : SampleCounts, minArea : {b.min : b \in AreaBands},
     maxArea : {b.max : b \in AreaBands}, seed : OptSeeds]

\* The options a caller passes: a band of AreaBands, any length, count, seed.
Options ==
    {o \in OptionSets :
        \E b \in AreaBands : o.minArea = b.min /\ o.maxArea = b.max}

\* rho of precompute(rho): the default 1.7e-8 and 1e-6.
Rhos == {Num(17, 1000000000), Num(1, 1000000)}

QueryPositions == {Num(j, 4) : j \in -1..MaxQuarter}

Slots == {1, 2}

\* Mutant of SeedOf: opts.seed is ignored.
SeedIgnored(optSeed, rnd) == rnd

\* opts.seed ?? Math.floor(Math.random() * 1e9), where Math.random()
\* yields rnd
SeedOf(optSeed, rnd) == IF optSeed = NoSeed THEN rnd ELSE optSeed

\* The objects new AreaProfile(opts) can return, by options and seed drawn
\* (a table, made explicit by @@, so that a profile is generated once per
\* check and not once per state).
Constructed ==
    [o \in {x \in Options : x.samples >= 0}, rnd \in RandomSeeds |->
        NewAreaProfile(o.length, o.samples, o.minArea, o.maxArea,
                       SeedOf(o.seed, rnd))] @@ <<>>

NoOptions ==
    [length |-> Zero, samples |-> 0, minArea |-> Zero, maxArea |-> Zero,
     seed |-> NoSeed]

NoObject ==
    [length |-> Zero, samples |-> 0, minArea |-> Zero, maxArea |-> Zero,
     rng |-> [state |-> Word(0, 0), draws |-> 0], area |-> <<>>,
     dx |-> Zero, cumulative |-> <<>>, totalR |-> Zero]

\* No call recorded.
NoCall == [fn |-> "none", x |-> Zero, i0 |-> Zero, i1 |-> Zero, val |-> Zero]

\* A slot before its constructor has run.
NoProfile == [st |-> "none", opts |-> NoOptions, rho |-> Undefined, obj |-> NoObject]

(***************************************************************************)
(* AreaProfile: operations.                                                *)
(***************************************************************************)
\* new AreaProfile(o) into slot s.  new Array(samples) throws a RangeError
\* for a negative length; otherwise the object is built and generated.
\* rho = Undefined records that precompute has not run on the object.
Construct(s, o, rnd) ==
    /\ prof[s].st = "none"
    /\ prof' = [prof EXCEPT ![s] =
                  IF o.samples < 0
                  THEN [st |-> "threw", opts |-> o, rho |-> Undefined, obj |-> NoObject]
                  ELSE [st |-> "live", opts |-> o, rho |-> Undefined,
                        obj |-> Constructed[o, rnd]]]
    /\ last' = NoCall
    /\ UNCHANGED <<logVars, sessionVars>>

\* prof[s].precompute(rho)
Precompute(s, rho) ==
    /\ prof[s].st = "live"
    /\ prof' = [prof EXCEPT ![s].obj = precompute(@, rho), ![s].rho = rho]
    /\ last' = NoCall
    /\ UNCHANGED <<logVars, sessionVars>>

\* What a call fn(x) on profile p reads and returns.
Call(p, fn, x) ==
    LET r == Interpolate(p, IF fn = "areaAt" THEN p.area ELSE p.cumulative, x)
    IN  [fn |-> fn, x |-> x, i0 |-> r.i0, i1 |-> r.i1, val |-> r.val]

\* prof[1].areaAt(x)
QueryArea(x) ==
    /\ prof[1].st = "live"
    /\ last' = Call(prof[1].obj, "areaAt", x)
    /\ UNCHANGED <<prof, logVars, sessionVars>>

\* prof[1].resistanceUpTo(x)
QueryResistance(x) ==
    /\ prof[1].st = "live"
    /\ last' = Call(prof[1].obj, "resistanceUpTo", x)
    /\ UNCHANGED <<prof, logVars, sessionVars>>

(***************************************************************************)
(* MeasurementLog: inputs and operations.                                  *)
(***************************************************************************)
\* The largest count a caller passes to autoScan.
MaxCount == 4

\* add is called on a log of fewer than MaxLog samples.
MaxLog == 3

\* Bar lengths passed to autoScan.
ScanLengths == {One, Int2Num(2)}

LogPositions == {Zero, Num(1, 2)}

\* Voltages passed to add and returned by measureFn.
Volts == {Int2Num(-1), Num(1, 2)}

\* The constructor, as the latest operation: no arguments.  before is the
\* length of data when the operation began, rets the values measureFn
\* returned, call by call.
NoOp ==
    [name |-> "new", x |-> Zero, v |-> Zero, length |-> Zero, count |-> 0,
     before |-> 0, rets |-> <<>>]

\* log.add(x, v)
LogAdd(x, v) ==
    /\ Len(log.data) < MaxLog
    /\ log' = add(log, x, v)
    /\ op' = [NoOp EXCEPT !.name = "add", !.x = x, !.v = v,
                          !.before = Len(log.data)]
    /\ UNCHANGED <<profVars, sessionVars>>

\* log.clear()
LogClear ==
    /\ log' = clear(log)
    /\ op' = [NoOp EXCEPT !.name = "clear", !.before = Len(log.data)]
    /\ UNCHANGED <<profVars, sessionVars>>

\* log.autoScan(length, fn, count), where fn returns rets[i + 1] on call i
LogAutoScan(length, count, rets) ==
    /\ log' = autoScan(log, length, TableFn(rets), count)
    /\ op' = [NoOp EXCEPT !.name = "autoScan", !.length = length,
                          !.count = count, !.before = Len(log.data),
                          !.rets = rets]
    /\ UNCHANGED <<profVars, sessionVars>>

(***************************************************************************)
(* The session of src/gpt-ver/main.js: inputs and handlers.                *)
(***************************************************************************)
\* Add Reading is pressed while the log or the readings list holds fewer
\* than MaxReadings samples.
MaxReadings == 1

\* Values randomGaussian() may return.
Draws == {Zero, One}

\* The draws of one auto scan, call by call: 1, 0, -1, 1, 0, -1, ...
NoiseRuns == {[i \in 1..ScanCount |-> Int2Num(1 - ((i - 1) % 3))]}

\* Positions of iSlider (0.05 to 0.8), nSlider (0 to 0.02) and xSlider
\* (0 to length).
SimCurrents == {Num(1, 4), Num(4, 5)}

SimNoises == {Zero, Num(3, 1000)}

SimProbes == {Num(7, 20), One}

\* { length: this.length }; the default of 512 samples stands as MaxSamples.
SessionOptions ==
    [length |-> NewSim.length, samples |-> MaxSamples, minArea |-> Num(3, 5),
     maxArea |-> Num(16, 5), seed |-> NoSeed]

\* Mutant of SessionProfile: precompute(this.rho) is not called.
SessionProfileRaw(rnd) ==
    [st |-> "live", opts |-> SessionOptions, rho |-> NewSim.rho,
     obj |-> Constructed[SessionOptions, rnd]]

\* new AreaProfile({ length }) followed by precompute(this.rho)
SessionProfile(rnd) ==
    [st |-> "live", opts |-> SessionOptions, rho |-> NewSim.rho,
     obj |-> precompute(Constructed[SessionOptions, rnd], NewSim.rho)]

NoSim ==
    [st |-> "none", length |-> Zero, rho |-> Zero, currentA |-> Zero,
     noiseStd |-> Zero, probeX |-> Zero, iSlider |-> Zero, nSlider |-> Zero,
     xSlider |-> Zero]

\* No reading produced by the latest handler.
NoMeas == [by |-> "none", I |-> Zero, std |-> Zero, xs |-> <<>>, zs |-> <<>>, vs |-> <<>>]

\* sim = new VarAreaExperiment()
SimConstruct(rnd) ==
    /\ sim.st = "none" /\ prof[1].st = "none"
    /\ prof' = [prof EXCEPT ![1] = SessionProfile(rnd)]
    /\ sim' = NewSim
    /\ log' = NewLog
    /\ op' = NoOp
    /\ last' = NoCall
    /\ meas' = NoMeas
    /\ UNCHANGED taper

\* Mutant of SimRegenerate: this.log.clear() is not called.
SimRegenerateKeepLog(rnd) ==
    /\ sim.st = "live"
    /\ prof' = [prof EXCEPT ![1] = SessionProfile(rnd)]
    /\ last' = NoCall
    /\ meas' = NoMeas
    /\ UNCHANGED <<logVars, sim, taper>>

\* New Sample: regenerate()
SimRegenerate(rnd) ==
    /\ sim.st = "live"
    /\ prof' = [prof EXCEPT ![1] = SessionProfile(rnd)]
    /\ log' = clear(log)
    /\ op' = [NoOp EXCEPT !.name = "clear", !.before = Len(log.data)]
    /\ last' = NoCall
    /\ meas' = NoMeas
    /\ UNCHANGED <<sim, taper>>

\* Add Reading: addReading()
SimAddReading(z) ==
    /\ sim.st = "live"
    /\ Len(log.data) < MaxReadings
    /\ LET v == measureVoltage(sim, prof[1].obj, sim.probeX, z)
       IN  /\ log' = add(log, sim.probeX, v)
           /\ op' = [NoOp EXCEPT !.name = "add", !.x = sim.probeX, !.v = v,
                                 !.before = Len(log.data)]
           /\ meas' = [by |-> "addReading", I |-> sim.currentA,
                       std |-> sim.noiseStd, xs |-> <<sim.probeX>>,
                       zs |-> <<z>>, vs |-> <<v>>]
    /\ UNCHANGED <<profVars, sim, taper>>

\* Auto Scan 24 pts: autoScan(), where randomGaussian() yields zs[i + 1] on
\* call i
SimAutoScan(zs) ==
    /\ sim.st = "live"
    /\ log' = autoScan(log, sim.length, MeasureFn(sim, prof[1].obj, zs),
                       ScanCount)
    /\ op' = [NoOp EXCEPT !.name = "autoScan", !.length = sim.length,
                          !.count = ScanCount, !.before = Len(log.data),
                          !.rets = [i \in 1..Len(log'.data) |-> log'.data[i].v]]
    /\ meas' = [by |-> "autoScan", I |-> sim.currentA, std |-> sim.noiseStd,
                xs |-> log'.calls, zs |-> zs, vs |-> op'.rets]
    /\ UNCHANGED <<profVars, sim, taper>>

\* Clear Data: this.log.clear()
SimClear ==
    /\ sim.st = "live"
    /\ log' = clear(log)
    /\ op' = [NoOp EXCEPT !.name = "clear", !.before = Len(log.data)]
    /\ meas' = NoMeas
    /\ UNCHANGED <<profVars, sim, taper>>

\* The iSlider is moved to v.
SimCurrentInput(v) ==
    /\ sim.st = "live"
    /\ sim' = [sim EXCEPT !.iSlider = v, !.currentA = v]
    /\ meas' = NoMeas
    /\ UNCHANGED <<profVars, logVars, taper>>

\* The nSlider is moved to v.
SimNoiseInput(v) ==
    /\ sim.st = "live"
    /\ sim' = [sim EXCEPT !.nSlider = v, !.noiseStd = v]
    /\ meas' = NoMeas
    /\ UNCHANGED <<profVars, logVars, taper>>

\* The xSlider is moved to v.
SimProbeInput(v) ==
    /\ sim.st = "live"
    /\ sim' = [sim EXCEPT !.xSlider = v, !.probeX = v]
    /\ meas' = NoMeas
    /\ UNCHANGED <<profVars, logVars, taper>>

\* A render tick: draw().  The fields follow the sliders and drawMeter shows
\* measureVoltage(probeX), where randomGaussian() yields z.  (drawBar and
\* drawGraph only read the profile and the log; the reading drawGraph takes
\* for its crosshair is painted and dropped.)
SimDraw(z) ==
    /\ sim.st = "live"
    /\ LET s == [sim EXCEPT !.currentA = sim.iSlider, !.noiseStd = sim.nSlider,
                            !.probeX = sim.xSlider]
           reading == measureVoltage(s, prof[1].obj, s.probeX, z)
       IN  /\ sim' = s
           /\ meas' = [by |-> "meter", I |-> s.currentA, std |-> s.noiseStd,
                       xs |-> <<s.probeX>>, zs |-> <<z>>, vs |-> <<reading>>]
    /\ UNCHANGED <<profVars, logVars, taper>>

(***************************************************************************)
(* The session of src/utils.js: inputs and handlers.                       *)
(***************************************************************************)
\* Positions of iSlider (0.01 to 0.75) and xSlider (0 to L).
TaperCurrents == {Num(1, 4), Num(3, 4)}

TaperProbes == {Zero, Num(1, 200), Num(1, 100)}

NoTaper ==
    [st |-> "none", L |-> Zero, ell |-> Zero, r0 |-> Zero, rho |-> Zero,
     totalR |-> Zero, samples |-> 0, dx |-> Zero, currentA |-> Zero,
     noiseStd |-> Zero, probeX |-> Zero, cumulative |-> <<>>,
     readings |-> <<>>, iSlider |-> Zero, xSlider |-> Zero]

\* sim = new VarAreaExperiment()
TaperConstruct ==
    /\ taper.st = "none"
    /\ taper' = NewTaper
    /\ meas' = NoMeas
    /\ UNCHANGED <<profVars, logVars, sim>>

\* The iSlider is moved to v.
TaperCurrentInput(v) ==
    /\ taper.st = "live"
    /\ taper' = [taper EXCEPT !.iSlider = v, !.currentA = v]
    /\ meas' = NoMeas
    /\ UNCHANGED <<profVars, logVars, sim>>

\* The xSlider is moved to v.
TaperProbeInput(v) ==
    /\ taper.st = "live"
    /\ taper' = [taper EXCEPT !.xSlider = v, !.probeX = v]
    /\ meas' = NoMeas
    /\ UNCHANGED <<profVars, logVars, sim>>

\* Add Reading: the handler of measureBtn, where randomGaussian() yields z
TaperMeasure(z) ==
    /\ taper.st = "live"
    /\ Len(taper.readings) < MaxReadings
    /\ LET r == TaperReading(taper, z)
       IN  /\ taper' = [taper EXCEPT !.readings = Append(@, r)]
           /\ meas' = [by |-> "addReading", I |-> taper.currentA,
                       std |-> Undefined, xs |-> <<r[1]>>, zs |-> <<z>>,
                       vs |-> <<r[2]>>]
    /\ UNCHANGED <<profVars, logVars, sim>>

\* Clear Data: the handler of clearBtn
TaperClear ==
    /\ taper.st = "live"
    /\ taper' = [taper EXCEPT !.readings = <<>>]
    /\ meas' = NoMeas
    /\ UNCHANGED <<profVars, logVars, sim>>

\* A render tick: draw().  The fields follow the sliders; there is no
\* nSlider, so noiseStd stays, and nothing is measured.
TaperDraw ==
    /\ taper.st = "live"
    /\ taper' = [taper EXCEPT !.currentA = taper.iSlider,
                              !.probeX = taper.xSlider]
    /\ meas' = NoMeas
    /\ UNCHANGED <<profVars, logVars, sim>>

(***************************************************************************)
(* Specifications.                                                         *)
(***************************************************************************)
Init ==
    /\ prof = [s \in Slots |-> NoProfile]
    /\ last = NoCall
    /\ log = NewLog
    /\ op = NoOp
    /\ sim = NoSim
    /\ taper = NoTaper
    /\ meas = NoMeas

\* One AreaProfile from its construction on: precompute and queries in any
\* order.
NextProfile ==
    \/ \E o \in Options, rnd \in RandomSeeds : Construct(1, o, rnd)
    \/ \E rho \in Rhos : Precompute(1, rho)
    \/ \E x \in QueryPositions : QueryArea(x)
    \/ \E x \in QueryPositions : QueryResistance(x)

SpecProfile == Init /\ [][NextProfile]_vars

\* The options of the two-profile runs: well-formed profiles of the
\* smallest and the largest sample count.
PairOptions ==
    {o \in Options : Lt(Zero, o.length) /\ o.samples \in {2, MaxSamples}}

\* Two AreaProfiles constructed independently of each other, in either order.
NextPair ==
    \/ \E s \in Slots, o \in PairOptions, rnd \in RandomSeeds : Construct(s, o, rnd)
    \/ \E s \in Slots, rho \in Rhos : Precompute(s, rho)

SpecPair == Init /\ [][NextPair]_vars

\* A MeasurementLog on its own, under any sequence of its three methods.
NextLog ==
    \/ \E x \in LogPositions, v \in Volts : LogAdd(x, v)
    \/ LogClear
    \/ \E length \in ScanLengths, count \in 0..MaxCount :
         \E rets \in [1..count -> Volts] : LogAutoScan(length, count, rets)

SpecLog == Init /\ [][NextLog]_vars

\* The session of src/gpt-ver/main.js under any sequence of user actions
\* and render ticks.
NextSession ==
    \/ \E rnd \in RandomSeeds : SimConstruct(rnd)
    \/ \E rnd \in RandomSeeds : SimRegenerate(rnd)
    \/ \E z \in Draws : SimAddReading(z)
    \/ \E zs \in NoiseRuns : SimAutoScan(zs)
    \/ SimClear
    \/ \E v \in SimCurrents : SimCurrentInput(v)
    \/ \E v \in SimNoises : SimNoiseInput(v)
    \/ \E v \in SimProbes : SimProbeInput(v)
    \/ \E z \in Draws : SimDraw(z)

SpecSession == Init /\ [][NextSession]_vars

\* The session of src/utils.js under any sequence of user actions and
\* render ticks.
NextTaper ==
    \/ TaperConstruct
    \/ \E v \in TaperCurrents : TaperCurrentInput(v)
    \/ \E v \in TaperProbes : TaperProbeInput(v)
    \/ \E z \in Draws : TaperMeasure(z)
    \/ TaperClear
    \/ TaperDraw

SpecTaper == Init /\ [][NextTaper]_vars

(***************************************************************************)
(* Properties of AreaProfile.                                              *)
(***************************************************************************)
\* A well-formed configuration: at least two samples on a bar of positive
\* length.  (Options only holds bands with 0 < minArea < maxArea.)
WellFormed(o) == o.samples >= 2 /\ Lt(Zero, o.length)

\* Slot s holds an object on which precompute has run.
Integrated(s) == prof[s].st = "live" /\ prof[s].rho # Undefined

\* x lies on the bar of p: 0 <= x <= L.
OnBar(p, x) == Le(Zero, x) /\ Le(x, p.length)

\* x converted to a sample index, t * (samples - 1), is not a whole number:
\* x falls strictly between two samples of p.
BetweenSamples(p, x) ==
    Mul(Div(x, p.length), Int2Num(p.samples - 1)).d # 1

\* C1 (monotonicity): on a well-formed profile that has been integrated
\* with rho > 0, a resistanceUpTo(x) result is never above the value at any
\* position of the bar to its right and never below the value at any
\* position to its left, whether or not the positions fall between samples.
C1_Monotone ==
    LET p == prof[1].obj
    IN  (/\ WellFormed(prof[1].opts)
         /\ Integrated(1)
         /\ last.fn = "resistanceUpTo"
         /\ OnBar(p, last.x))
        => \A x \in QueryPositions :
              OnBar(p, x) =>
                 /\ Lt(last.x, x) => Le(last.val, resistanceUpTo(p, x))
                 /\ Lt(x, last.x) => Le(resistanceUpTo(p, x), last.val)

\* C1 witness: an integrated well-formed profile queried strictly between
\* two samples, the result lying strictly between the two table entries and
\* strictly below the value at a later position that is between samples too.
C1_Witness ==
    LET p == prof[1].obj
    IN  /\ WellFormed(prof[1].opts)
        /\ Integrated(1)
        /\ last.fn = "resistanceUpTo"
        /\ OnBar(p, last.x)
        /\ BetweenSamples(p, last.x)
        /\ Lt(Get(p.cumulative, last.i0), last.val)
        /\ Lt(last.val, Get(p.cumulative, last.i1))
        /\ \E x \in QueryPositions :
              /\ OnBar(p, x) /\ BetweenSamples(p, x) /\ Lt(last.x, x)
              /\ Lt(last.val, resistanceUpTo(p, x))

\* An index that names one of the samples of p.
SampleIndex(p, i) == IsNum(i) /\ i.d = 1 /\ i.n >= 0 /\ i.n < p.samples

\* What C2 says of the call recorded in last: it read two of the N samples
\* and returned a finite number, and if its position is off the bar it
\* returned what the call at the nearest end of the bar returns.
ClampedCall ==
    LET p == prof[1].obj
    IN  /\ SampleIndex(p, last.i0)
        /\ SampleIndex(p, last.i1)
        /\ IsFinite(last.val)
        /\ ~OnBar(p, last.x) =>
              last.val = Call(p, last.fn, constrain(last.x, Zero, p.length)).val

\* C2 (clamping): on every constructed profile every call, at any position,
\* reads two of the N samples and returns a finite number, and a call at a
\* position off the bar returns what the call at the nearest end of the bar
\* returns, for areaAt and for resistanceUpTo.
C2_Clamping ==
    (prof[1].st = "live" /\ last.fn # "none") => ClampedCall

\* C2 on the well-formed profiles (N >= 2 and L > 0) only.
C2_ClampingWellFormed ==
    (WellFormed(prof[1].opts) /\ prof[1].st = "live" /\ last.fn # "none")
        => ClampedCall

\* C2 witness: resistanceUpTo called beyond the far end of an integrated
\* well-formed profile, returning the (non-zero) total resistance.
C2_Witness ==
    LET p == prof[1].obj
    IN  /\ WellFormed(prof[1].opts)
        /\ Integrated(1)
        /\ last.fn = "resistanceUpTo"
        /\ Lt(p.length, last.x)
        /\ last.val = p.totalR
        /\ Lt(Zero, last.val)

\* C3 (endpoints): once a well-formed profile has been integrated, totalR
\* is the last entry of the cumulative array, resistanceUpTo(0) is 0 and
\* resistanceUpTo(L) is totalR.
C3_Endpoints ==
    LET p == prof[1].obj
    IN  (WellFormed(prof[1].opts) /\ Integrated(1))
        => /\ p.totalR = Get(p.cumulative, Int2Num(p.samples - 1))
           /\ (last.fn = "resistanceUpTo" /\ last.x = Zero) => last.val = Zero
           /\ (last.fn = "resistanceUpTo" /\ last.x = p.length) =>
                 (last.val = p.totalR
                  /\ last.val = Get(p.cumulative, Int2Num(p.samples - 1)))

\* C3 witness: resistanceUpTo(L) on an integrated profile of more than two
\* samples, whose total differs from every earlier table entry.
C3_Witness ==
    LET p == prof[1].obj
    IN  /\ WellFormed(prof[1].opts)
        /\ Integrated(1)
        /\ p.samples > 2
        /\ last.fn = "resistanceUpTo"
        /\ last.x = p.length
        /\ last.val = p.totalR
        /\ \A i \in 1..(p.samples - 1) : Lt(p.cumulative[i], p.totalR)

\* v lies within [minArea, maxArea] of p and is strictly positive.
InBand(p, v) == Le(p.minArea, v) /\ Le(v, p.maxArea) /\ Lt(Zero, v)

\* What C6 says of the profile in slot 1: every element of the area array
\* lies within [minArea, maxArea] and is strictly positive, the array is the
\* one generate() produced (precompute does not change it), and areaAt(x) at
\* a position of the bar lies within [minArea, maxArea] too.
AreasInBand ==
    LET p == prof[1].obj
    IN  /\ Len(p.area) = p.samples
        /\ \A i \in 1..Len(p.area) : InBand(p, p.area[i])
        /\ \E rnd \in RandomSeeds : p.area = Constructed[prof[1].opts, rnd].area
        /\ (last.fn = "areaAt" /\ OnBar(p, last.x)) => InBand(p, last.val)

\* C6 (area bounds): from its construction on, before and after precompute,
\* every element of the area array of a constructed profile lies within
\* [minArea, maxArea] and is strictly positive, precompute does not change
\* the array, and areaAt(x) at a position of the bar lies within
\* [minArea, maxArea] too.
C6_AreaBounds ==
    prof[1].st = "live" => AreasInBand

\* C6 on the well-formed profiles (N >= 2 and L > 0) only.
C6_AreaBoundsWellFormed ==
    (WellFormed(prof[1].opts) /\ prof[1].st = "live") => AreasInBand

\* C6 witness: after precompute, areaAt between two samples of a profile
\* that holds a sample clamped to minArea and a sample above it, the
\* interpolated area lying strictly between the two samples read.
C6_Witness ==
    LET p == prof[1].obj
    IN  /\ WellFormed(prof[1].opts)
        /\ Integrated(1)
        /\ \E i \in 1..Len(p.area) : p.area[i] = p.minArea
        /\ last.fn = "areaAt"
        /\ OnBar(p, last.x)
        /\ BetweenSamples(p, last.x)
        /\ Get(p.area, last.i0) # Get(p.area, last.i1)
        /\ InBand(p, last.val)

\* Every Number of the object is finite.
AllFinite(p) ==
    /\ \A i \in 1..Len(p.area) : IsFinite(p.area[i])
    /\ \A i \in 1..Len(p.cumulative) : IsFinite(p.cumulative[i])
    /\ IsFinite(p.totalR)
    /\ IsFinite(p.dx)

\* C7 (invalid configuration degrades gracefully): constructing a profile
\* with N < 2 or L <= 0 never throws, and the object, integrated or not,
\* holds only finite numbers, its areas within [minArea, maxArea], and
\* answers every query with a finite number.
C7_Graceful ==
    LET p == prof[1].obj
    IN  (prof[1].st # "none" /\ ~WellFormed(prof[1].opts))
        => /\ prof[1].st = "live"
           /\ AllFinite(p)
           /\ \A i \in 1..Len(p.area) : InBand(p, p.area[i])
           /\ last.fn # "none" => IsFinite(last.val)

\* The options of slots 1 and 2 agree and give the seed explicitly.
SameSeededOptions ==
    /\ prof[1].opts = prof[2].opts
    /\ prof[1].opts.seed # NoSeed

\* C4 (determinism): two profiles constructed independently with the same
\* explicit seed and the same length, sample count and area band hold the
\* same area array, element by element, and, once both are integrated with
\* the same rho, the same cumulative array and total.
C4_Deterministic ==
    (prof[1].st = "live" /\ prof[2].st = "live" /\ SameSeededOptions)
    => /\ Len(prof[1].obj.area) = Len(prof[2].obj.area)
       /\ \A i \in 1..Len(prof[1].obj.area) :
             prof[1].obj.area[i] = prof[2].obj.area[i]
       /\ (Integrated(1) /\ Integrated(2) /\ prof[1].rho = prof[2].rho)
          => /\ prof[1].obj.cumulative = prof[2].obj.cumulative
             /\ prof[1].obj.totalR = prof[2].obj.totalR

\* C4 witness: two profiles of the largest sample count built from the same
\* explicit seed and integrated with the same rho; the area array is not
\* constant, and the profile differs from one a different seed gives.
C4_Witness ==
    /\ Integrated(1) /\ Integrated(2)
    /\ SameSeededOptions
    /\ prof[1].rho = prof[2].rho
    /\ prof[1].opts.samples = MaxSamples
    /\ \E i \in 1..MaxSamples : prof[1].obj.area[i] # prof[1].obj.area[1]
    /\ \E o \in PairOptions, rnd \in RandomSeeds :
          /\ o.seed # prof[1].opts.seed
          /\ [o EXCEPT !.seed = prof[1].opts.seed] = prof[1].opts
          /\ Constructed[o, rnd].area # prof[1].obj.area

(***************************************************************************)
(* Properties of MeasurementLog.                                           *)
(***************************************************************************)
\* The position of sample i of a scan of count samples along length:
\* i * length / (count - 1).
ScanPosition(i, length, count) ==
    Div(Mul(Int2Num(i), length), Int2Num(count - 1))

\* What autoScan is to leave behind, read off the log right after the call
\* recorded in op: exactly count samples, sample i at ScanPosition(i), the
\* first at 0 and the last at length, positions strictly increasing,
\* measureFn called once per position in that order, and its results stored
\* in the order of the calls.
ScanContract ==
    /\ Len(log.data) = op.count
    /\ \A i \in 1..Len(log.data) :
         /\ log.data[i].x = ScanPosition(i - 1, op.length, op.count)
         /\ log.data[i].v = op.rets[i]
    /\ Len(log.data) >= 1 =>
         /\ log.data[1].x = Zero
         /\ log.data[Len(log.data)].x = op.length
    /\ \A i \in 1..(Len(log.data) - 1) : Lt(log.data[i].x, log.data[i + 1].x)
    /\ log.calls = [i \in 1..Len(log.data) |-> log.data[i].x]

C9_AppendOnly ==
    [][/\ op'.name = "add" =>
            /\ Len(log'.data) = Len(log.data) + 1
            /\ log'.data[Len(log'.data)] = [x |-> op'.x, v |-> op'.v]
            /\ \A i \in 1..Len(log.data) : log'.data[i] = log.data[i]
       /\ op'.name = "clear" => log'.data = <<>>
       /\ log'.data = log'.added]_vars

\* add has just put a sample on top of two or more that differ.
C9_Witness ==
    /\ op.name = "add" /\ op.before >= 2
    /\ Len(log.data) = op.before + 1
    /\ log.data[1] # log.data[2]
    /\ log.data[Len(log.data)] = [x |-> op.x, v |-> op.v]

(***************************************************************************)
(* Properties of the sessions.                                             *)
(***************************************************************************)
\* The linearly interpolated cumulative resistance of the taper at x.
TaperResistanceUpTo(e, x) ==
    Interpolate([length |-> e.L, samples |-> e.samples], e.cumulative, x).val

\* C8 (reading = I * resistanceUpTo(x) + totalStd * z): every reading the
\* latest handler produced, in either session, is the current times the
\* linearly interpolated cumulative resistance at its position, plus the
\* noise level times its normal draw.
C8_Readings ==
    /\ sim.st = "live" =>
         \A i \in 1..Len(meas.vs) :
            meas.vs[i] = Add(Mul(meas.I, resistanceUpTo(prof[1].obj, meas.xs[i])),
                             Mul(meas.std, meas.zs[i]))
    /\ taper.st = "live" =>
         \A i \in 1..Len(meas.vs) :
            /\ meas.vs[i].ideal = Mul(meas.I, TaperResistanceUpTo(taper, meas.xs[i]))
            /\ meas.vs[i].z = meas.zs[i]

\* C10 (stored positions lie on the bar): in either session, every sample
\* of the log or of the readings list has 0 <= x <= L.
C10_OnBar ==
    /\ sim.st = "live" =>
         \A i \in 1..Len(log.data) :
            Le(Zero, log.data[i].x) /\ Le(log.data[i].x, sim.length)
    /\ taper.st = "live" =>
         \A i \in 1..Len(taper.readings) :
            Le(Zero, taper.readings[i][1]) /\ Le(taper.readings[i][1], taper.L)

(***************************************************************************)
(* Random-lobes generation: the draws generate() makes.                    *)
(***************************************************************************)
\* const lobes = 2 + Math.floor(this.rng.next() * 3), the first draw of a
\* generator seeded with seed.
LobesOf(seed) ==
    2 + MathFloor(Mul(MulberryNext(MulberrySeed(seed)), Int2Num(3))).n

\* The number of rng.next() calls made on the generator of the profile of
\* slot 1, built from its options with the random seed rnd, is n.
DrawsAre(rnd, n) ==
    /\ prof[1].obj.rng = Constructed[prof[1].opts, rnd].rng
    /\ prof[1].obj.rng.draws = n

\* C11 (lobes drawn once per profile): on a profile of N >= 2 samples the
\* lobe count is an integer in [2, 4], and generate() consumes
\* 1 + 2 * lobes + N draws: one for the lobe count, one phase and one
\* frequency per lobe, one jitter per sample.
C11_DrawsOncePerProfile ==
    (WellFormed(prof[1].opts) /\ prof[1].st = "live") =>
        \E rnd \in RandomSeeds :
            LET lobes == LobesOf(SeedOf(prof[1].opts.seed, rnd))
            IN  /\ lobes \in 2..4
                /\ DrawsAre(rnd, 1 + 2 * lobes + prof[1].obj.samples)

\* What generate() does: the phase and the frequency of every lobe are
\* drawn again for every sample, 1 + N * (2 * lobes + 1) draws in all.
C11_DrawsPerSample ==
    prof[1].st = "live" =>
        \E rnd \in RandomSeeds :
            LET lobes == LobesOf(SeedOf(prof[1].opts.seed, rnd))
            IN  /\ lobes \in 2..4
                /\ DrawsAre(rnd, 1 + prof[1].obj.samples * (2 * lobes + 1))

\* A constructed profile of three lobes and at least two samples.
C11_Witness ==
    /\ prof[1].st = "live"
    /\ prof[1].opts.seed = 42
    /\ LobesOf(42) = 3
    /\ prof[1].obj.samples >= 2
    /\ prof[1].obj.rng.draws = 1 + prof[1].obj.samples * 7

(***************************************************************************)
(* The session of src/gpt-ver/main.js: its profile and its log.            *)
(***************************************************************************)
\* p holds the arrays precompute(rho) leaves on a profile generated from
\* options o: the cumulative array integrated from the area array with rho,
\* totalR its last entry, and not the defaults of the constructor.
PrecomputedWith(p, o, rho) ==
    /\ \E rnd \in RandomSeeds : p = precompute(Constructed[o, rnd], rho)
    /\ p.totalR = p.cumulative[p.samples]
    /\ p.cumulative # Filled(p.samples, Zero)
    /\ p.totalR # One

\* C12 (precompute ordering): in every state of the session after its
\* constructor has returned, the current profile has had precompute applied
\* with the session's rho since it was generated, totalR is the last entry
\* of the cumulative array, and every reading the latest handler or render
\* tick took was computed on the integrated arrays.
C12_Precomputed ==
    sim.st = "live" =>
        /\ prof[1].st = "live"
        /\ prof[1].rho = sim.rho
        /\ PrecomputedWith(prof[1].obj, prof[1].opts, sim.rho)
        /\ \A i \in 1..Len(meas.vs) :
              \E rnd \in RandomSeeds :
                 meas.vs[i] =
                    Add(Mul(meas.I,
                            resistanceUpTo(precompute(Constructed[prof[1].opts, rnd],
                                                      sim.rho),
                                           meas.xs[i])),
                        Mul(meas.std, meas.zs[i]))

\* C12 witness: a render tick whose meter reading, taken without noise at
\* the far end of the bar, is I * totalR of the integrated profile, with a
\* reading already in the log.
C12_Witness ==
    /\ sim.st = "live"
    /\ meas.by = "meter"
    /\ meas.zs = <<Zero>>
    /\ meas.xs = <<sim.length>>
    /\ Len(log.data) > 0
    /\ Lt(Zero, prof[1].obj.totalR)
    /\ meas.vs = <<Mul(sim.currentA, prof[1].obj.totalR)>>

\* The values randomGaussian() yields in some handler, and the settings the
\* current and noise fields take.
AnyDraw == Draws \cup UNION {{zs[i] : i \in DOMAIN zs} : zs \in NoiseRuns}

AnyCurrent == SimCurrents \cup {NewSim.currentA}

AnyNoise == SimNoises \cup {NewSim.noiseStd}

\* Sample m is a reading measureVoltage(m.x) takes on profile p, at some
\* setting of the current and the noise and some draw.
MeasuredOn(p, m) ==
    \E I \in AnyCurrent, std \in AnyNoise, z \in AnyDraw :
        m.v = Add(Mul(I, resistanceUpTo(p, m.x)), Mul(std, z))

\* Every sample of the log is a reading on the session's current profile.
LogOnCurrentProfile ==
    sim.st = "live" =>
        \A i \in 1..Len(log.data) : MeasuredOn(prof[1].obj, log.data[i])

\* A step of the session: a step that replaces the profile leaves the log
\* empty; a step that puts samples in the log leaves the profile alone and
\* measures them on it with the session's settings; Clear Data empties the
\* log and leaves the profile alone.
NoMixingStep ==
    sim.st = "live" =>
        /\ prof' # prof => log'.data = <<>>
        /\ \A i \in 1..Len(log'.data) :
              (i > Len(log.data) \/ log'.data[i] # log.data[i])
                 => /\ prof' = prof
                    /\ \E z \in AnyDraw :
                          log'.data[i].v =
                             measureVoltage(sim, prof[1].obj, log'.data[i].x, z)
        /\ SimClear => (log'.data = <<>> /\ prof' = prof)

\* C13 (the log never mixes profiles): in every state of the session every
\* sample of the log was measured against the current profile; New Sample
\* replaces the profile and leaves the log empty, and Clear Data empties the
\* log and leaves the profile (area, cumulative, totalR) unchanged.
C13_NoMixing == [](LogOnCurrentProfile) /\ [][NoMixingStep]_vars

\* C13 witness: an auto scan has just filled the log with ScanCount samples
\* of the current profile, the last of them a positive voltage at the far
\* end of the bar.
C13_Witness ==
    /\ sim.st = "live"
    /\ meas.by = "autoScan"
    /\ Len(log.data) = ScanCount
    /\ \A i \in 1..ScanCount :
          log.data[i].v =
             measureVoltage(sim, prof[1].obj, log.data[i].x, meas.zs[i])
    /\ log.data[ScanCount].x = sim.length
    /\ Lt(Zero, log.data[ScanCount].v)

=============================================================================
